---- MODULE Spec2Model ----
(***************************************************************************)
(* A model of SeeleClient (src/unnamed/part_000): one client object, its   *)
(* configuration setters, the chain-ID initialisation, the signing path    *)
(* (prepareSignInfo, sendTx, transfer) and the chain queries.              *)
(*                                                                         *)
(* Every action overwrites the observation variables (ev, req, signInfo,   *)
(* signed, logs, ret, frame, res), so in each state they describe the step *)
(* that has just been taken and nothing older.                             *)
(***************************************************************************)
EXTENDS Integers, Sequences, FiniteSets, TLC

VARIABLES
  constructed,    \* a SeeleClient object exists (the constructor returned)
  baseURI,        \* this.baseURI
  chainID,        \* this.chainID
  accNum,         \* this.accNum
  broadcastMode,  \* this.broadcastMode
  wallet,         \* this.wallet
  hard,           \* this.hard (the Hard sub-client is attached)
  inits,          \* initChain calls suspended at their await
  call,           \* the signing-path call suspended at its await, if any
  hist,           \* history of the chain-ID field (counts, who wrote it last)
  ev,             \* the step just taken: operation, outcome, error message
  req,            \* the HTTP request issued by the step just taken
  signInfo,       \* the SignInfo produced by the step just taken
  signed,         \* what the step just taken handed to the signer
  logs,           \* console.log calls made by the step just taken
  ret,            \* the value returned by the step just taken
  frame,          \* the signing-path call the step just taken belongs to
  res             \* the response a chain query of the step just taken received

cfg == <<constructed, baseURI, chainID, accNum, broadcastMode, wallet, hard>>
obs == <<ev, req, signInfo, signed, logs, ret, frame, res>>
vars == <<constructed, baseURI, chainID, accNum, broadcastMode, wallet, hard,
          inits, call, hist, ev, req, signInfo, signed, logs, ret, frame,
          res>>

(***************************************************************************)
(* JavaScript values.  Every value has the same three fields so that any   *)
(* two of them can be compared.                                            *)
(***************************************************************************)
Undef  == [t |-> "undefined", s |-> "", n |-> 0]
Null   == [t |-> "null", s |-> "", n |-> 0]
Str(x) == [t |-> "string", s |-> x, n |-> 0]
Num(k) == [t |-> "number", s |-> "", n |-> k]

\* !v : the falsy values are undefined, null, "" and 0
Truthy(v) ==
  CASE v.t = "string" -> v.s # ""
    [] v.t = "number" -> v.n # 0
    [] OTHER -> FALSE

\* v != null : loose comparison, false for exactly null and undefined
NotNullish(v) == v.t # "undefined" /\ v.t # "null"

Digit(d) ==
  CASE d = 0 -> "0" [] d = 1 -> "1" [] d = 2 -> "2" [] d = 3 -> "3"
    [] d = 4 -> "4" [] d = 5 -> "5" [] d = 6 -> "6" [] d = 7 -> "7"
    [] d = 8 -> "8" [] d = 9 -> "9"

RECURSIVE Decimal(_)
Decimal(k) == IF k < 10 THEN Digit(k) ELSE Decimal(k \div 10) \o Digit(k % 10)

\* String(v), for the values the model uses (non-negative integers)
ToStr(v) ==
  CASE v.t = "string" -> v.s
    [] v.t = "number" -> Decimal(v.n)
    [] v.t = "null" -> "null"
    [] OTHER -> "undefined"

\* v != 'literal' for a non-numeric string literal: a number never equals it
LooseNeq(v, lit) == ~(v.t = "string" /\ v.s = lit)

(***************************************************************************)
(* Module constants                                                        *)
(***************************************************************************)
SEELE_PREFIX == "seele"
DERIVATION_PATH == "m/44'/513'/0'/0/0"
DERIVATION_PATH_LEGACY == "m/44'/118'/0'/0/0"
DefaultGas == 300000
DEFAULT_FEE == [t |-> "object", amount |-> <<>>, gas |-> ToStr(Num(DefaultGas))]

api == [
  txs |-> "/txs",
  nodeInfo |-> "/node_info",
  getBlock |-> "/blocks",
  getLatestBlock |-> "/blocks/latest",
  getLatestValidatorSet |-> "/validatorsets/latest",
  getValidatorSet |-> "/validatorsets/",
  getAccount |-> "/auth/accounts",
  getBalances |-> "/bank/balances",
  getSupply |-> "/supply/total" ]

(***************************************************************************)
(* Input domains                                                           *)
(***************************************************************************)
Servers == {Undef, Null, Str(""), Str("http://node")}
ChainIDArgs == {Undef, Null, Str(""), Str("seele-1")}
AccNumArgs == {Undef, Null, Str(""), Num(0), Num(5), Str("5")}
ModeArgs == {Undef, Null, Str(""), Str("async"), Str("sync"), Str("block"),
             Str("commit"), Num(1)}
GoodMnemonic == "abandon ability able"
MnemonicArgs == {Undef, Null, Str(""), Str(GoodMnemonic), Str("not a mnemonic")}
Passwords == {""}

(***************************************************************************)
(* Observations of one step                                                *)
(***************************************************************************)
\* op: the operation; arg: its (first) argument; status: "ok" (returned),
\* "throw" (threw or rejected), "await" (suspended); err: the error message
Ev(op, arg, status, err) == [op |-> op, arg |-> arg, status |-> status, err |-> err]
NoReq == [method |-> "", path |-> "", base |-> Undef, mode |-> Undef]
NoSignInfo == [chain_id |-> Undef, account_number |-> Undef, sequence |-> Undef]
NoWallet == [t |-> "undefined", mnemonic |-> "", password |-> "", prefix |-> "",
             path |-> "", address |-> ""]
NoFee == [t |-> "undefined", amount |-> <<>>, gas |-> ""]
NoTx == [msg |-> <<>>, fee |-> NoFee]
NoSigned == [tx |-> NoTx, signInfo |-> NoSignInfo, wallet |-> NoWallet]
NoData == [present |-> FALSE, code |-> Undef, raw_log |-> "", result |-> ""]
NoRet == [t |-> "none", data |-> NoData]
This == [t |-> "this", data |-> NoData]
NoRes == [ok |-> FALSE, data |-> NoData, cause |-> ""]
NoMeta == [account_number |-> Undef, sequence |-> Undef]
\* a signing-path call: its arguments, the msgs, fee and sequence it passes to
\* sendTx, how often it invoked sendTx and tx.loadMetaData, the meta data loaded
NoFrame == [op |-> "none", recipient |-> "", coins |-> <<>>, feeArg |-> NoFee,
            msgs |-> <<>>, fee |-> NoFee, sequence |-> Undef, fetches |-> 0,
            sendTx |-> 0, meta |-> NoMeta]

\* a step that neither talks to the network nor to the signer nor logs
Quiet ==
  /\ req' = NoReq
  /\ signInfo' = NoSignInfo
  /\ signed' = NoSigned
  /\ logs' = 0
  /\ res' = NoRes
  /\ frame' = NoFrame

\* a synchronous throw: nothing but the event is produced
Throws(op, arg, msg) ==
  /\ ev' = Ev(op, arg, "throw", msg)
  /\ ret' = NoRet
  /\ Quiet

Returns(op, arg, value) ==
  /\ ev' = Ev(op, arg, "ok", "")
  /\ ret' = value

(***************************************************************************)
(* constructor and setters                                                 *)
(***************************************************************************)
ServerMissing(server) == ~Truthy(server)

Constructor(server) ==
  /\ ~constructed
  /\ IF ServerMissing(server)
       THEN /\ Throws("constructor", server, "Seele server should not be null")
            /\ UNCHANGED <<cfg, inits, call, hist>>
       ELSE /\ constructed' = TRUE
            /\ baseURI' = server
            /\ broadcastMode' = Str("sync")
            /\ hard' = TRUE
            /\ Returns("constructor", server, This)
            /\ Quiet
            /\ UNCHANGED <<chainID, accNum, wallet, inits, call, hist>>

\* a variant that tests for undefined only and lets "" and null through
ChainIDMissing_OnlyUndefined(id) == id.t = "undefined"

ChainIDMissing(id) == ~Truthy(id)

SetChainID(id) ==
  /\ constructed
  /\ IF ChainIDMissing(id)
       THEN /\ Throws("setChainID", id, "chainID cannot be undefined")
            /\ UNCHANGED <<cfg, inits, call, hist>>
       ELSE /\ chainID' = id
            /\ hist' = [hist EXCEPT !.manual = TRUE, !.src = "manual"]
            /\ Returns("setChainID", id, This)
            /\ Quiet
            /\ UNCHANGED <<constructed, baseURI, accNum, broadcastMode, wallet,
                           hard, inits, call>>

AccNumMissing(n) == ~Truthy(n)

SetAccountNumber(n) ==
  /\ constructed
  /\ IF AccNumMissing(n)
       THEN /\ Throws("setAccountNumber", n,
                      "account number cannot be undefined")
            /\ UNCHANGED <<cfg, inits, call, hist>>
       ELSE /\ accNum' = Str(ToStr(n))
            /\ Returns("setAccountNumber", n, This)
            /\ Quiet
            /\ UNCHANGED <<constructed, baseURI, chainID, broadcastMode, wallet,
                           hard, inits, call, hist>>

ModeMissing(mode) == ~Truthy(mode)

\* a variant whose list of accepted modes has a fourth entry
ModeInvalid_Commit(mode) ==
  /\ LooseNeq(mode, "async") /\ LooseNeq(mode, "sync")
  /\ LooseNeq(mode, "block") /\ LooseNeq(mode, "commit")

ModeInvalid(mode) ==
  LooseNeq(mode, "async") /\ LooseNeq(mode, "sync") /\ LooseNeq(mode, "block")

SetBroadcastMode(mode) ==
  /\ constructed
  /\ IF ModeMissing(mode)
       THEN /\ Throws("setBroadcastMode", mode, "broadcast mode cannot be undefined")
            /\ UNCHANGED <<cfg, inits, call, hist>>
       ELSE IF ModeInvalid(mode)
       THEN /\ Throws("setBroadcastMode", mode, "invalid broadcast mode ")
            /\ UNCHANGED <<cfg, inits, call, hist>>
       ELSE /\ broadcastMode' = Str(ToStr(mode))
            /\ Returns("setBroadcastMode", mode, This)
            /\ Quiet
            /\ UNCHANGED <<constructed, baseURI, chainID, accNum, wallet, hard,
                           inits, call, hist>>

MnemonicMissing(mnemonic) == ~Truthy(mnemonic)

\* sig.createWalletFromMnemonic: the external library derives the key pair and
\* the bech32 address; the address is a function of mnemonic, password and path
WalletAddress(mnemonic, password, prefix, path) ==
  prefix \o "1" \o (IF path = DERIVATION_PATH THEN "std" ELSE "legacy")

createWalletFromMnemonic(mnemonic, password, prefix, path) ==
  [t |-> "object", mnemonic |-> mnemonic, password |-> password,
   prefix |-> prefix, path |-> path,
   address |-> WalletAddress(mnemonic, password, prefix, path)]

DerivationPathFor(legacy) ==
  IF legacy THEN DERIVATION_PATH_LEGACY ELSE DERIVATION_PATH

SetWallet(mnemonic, password, legacy) ==
  /\ constructed
  /\ IF MnemonicMissing(mnemonic)
       THEN /\ Throws("setWallet", mnemonic, "mnemonic cannot be undefined")
            /\ UNCHANGED <<cfg, inits, call, hist>>
       ELSE IF ToStr(mnemonic) # GoodMnemonic
       THEN \* the library rejects a phrase that is no valid mnemonic
            /\ Throws("setWallet", mnemonic, "Invalid mnemonic")
            /\ UNCHANGED <<cfg, inits, call, hist>>
       ELSE /\ wallet' = createWalletFromMnemonic(ToStr(mnemonic), password,
                           SEELE_PREFIX, DerivationPathFor(legacy))
            /\ Returns("setWallet", mnemonic, This)
            /\ Quiet
            /\ UNCHANGED <<constructed, baseURI, chainID, accNum, broadcastMode,
                           hard, inits, call, hist>>

(***************************************************************************)
(* The query executor tx.getTx(path, base, timeout) and the other helpers  *)
(* of the tx module are seen through their outcome only: a request is      *)
(* issued, and it either yields a response or is rejected after its retry  *)
(* budget is spent.                                                        *)
(***************************************************************************)
GetReq(path) == [method |-> "GET", path |-> path, base |-> baseURI, mode |-> Undef]
QueryFailure == "Error: Request failed with status code 500"

\* what _.get(res, 'data.node_info.network') can yield
Networks == {Undef, Str("seele-testnet")}

(***************************************************************************)
(* initChain: the guard and the query run when the call is made, the       *)
(* assignment runs when the awaited query has resolved.                    *)
(***************************************************************************)
MaxInitCalls == 2

\* a variant that queries on every call, whether or not a chain ID is cached
InitNeedsQuery_Always == TRUE

InitNeedsQuery == ~Truthy(chainID)

InitChainCall ==
  /\ constructed
  /\ hist.calls < MaxInitCalls
  /\ IF InitNeedsQuery
       THEN /\ inits' = inits + 1
            /\ hist' = [hist EXCEPT !.calls = @ + 1, !.queries = @ + 1]
            /\ ev' = Ev("initChain", Undef, "await", "")
            /\ req' = GetReq(api.nodeInfo)
            /\ ret' = NoRet
       ELSE /\ inits' = inits
            /\ hist' = [hist EXCEPT !.calls = @ + 1]
            /\ Returns("initChain", Undef, This)
            /\ req' = NoReq
  /\ signInfo' = NoSignInfo /\ signed' = NoSigned /\ logs' = 0
  /\ res' = NoRes /\ frame' = NoFrame
  /\ UNCHANGED <<cfg, call>>

\* the continuation of a suspended initChain whose query resolved
InitChainStore(network) ==
  /\ inits > 0
  /\ inits' = inits - 1
  /\ chainID' = network
  /\ hist' = [hist EXCEPT
                !.autoAssigns = IF network # Undef THEN @ + 1 ELSE @,
                !.src = IF network # Undef THEN "fetched" ELSE "unset"]
  /\ Returns("initChain.resumed", Undef, This)
  /\ Quiet
  /\ UNCHANGED <<constructed, baseURI, accNum, broadcastMode, wallet, hard, call>>

\* the continuation of a suspended initChain whose query was rejected
InitChainFail ==
  /\ inits > 0
  /\ inits' = inits - 1
  /\ Throws("initChain.resumed", Undef, QueryFailure)
  /\ UNCHANGED <<cfg, call, hist>>

(***************************************************************************)
(* Initial state and the specification of the configuration operations     *)
(***************************************************************************)
Init ==
  /\ constructed = FALSE
  /\ baseURI = Undef
  /\ chainID = Undef
  /\ accNum = Undef
  /\ broadcastMode = Undef
  /\ wallet = NoWallet
  /\ hard = FALSE
  /\ inits = 0
  /\ call = NoFrame
  /\ hist = [calls |-> 0, queries |-> 0, autoAssigns |-> 0, manual |-> FALSE,
             src |-> "unset"]
  /\ ev = Ev("none", Undef, "ok", "")
  /\ req = NoReq
  /\ signInfo = NoSignInfo
  /\ signed = NoSigned
  /\ logs = 0
  /\ ret = NoRet
  /\ frame = NoFrame
  /\ res = NoRes

Setters ==
  \/ \E server \in Servers : Constructor(server)
  \/ \E id \in ChainIDArgs : SetChainID(id)
  \/ \E n \in AccNumArgs : SetAccountNumber(n)
  \/ \E mode \in ModeArgs : SetBroadcastMode(mode)
  \/ \E mnemonic \in MnemonicArgs, password \in Passwords, legacy \in BOOLEAN :
       SetWallet(mnemonic, password, legacy)

Next ==
  \/ Setters
  \/ InitChainCall
  \/ \E network \in Networks : InitChainStore(network)
  \/ InitChainFail

Spec == Init /\ [][Next]_vars

(***************************************************************************)
(* The signing path: prepareSignInfo, sendTx, transfer                     *)
(***************************************************************************)
SeqArgs == {Undef, Num(0), Str("0"), Num(2), Str("2")}
Metas == {[account_number |-> Num(12), sequence |-> Num(0)],
          [account_number |-> Str("12"), sequence |-> Str("7")]}
Recipients == {"seele1bob", "seele1carol"}
CoinArgs == {<<[denom |-> "snp", amount |-> "1"]>>,
             <<[denom |-> "snp", amount |-> "25"]>>}
CustomFee == [t |-> "object", amount |-> <<[denom |-> "snp", amount |-> "3"]>>,
              gas |-> "200000"]
FeeArgs == {NoFee, CustomFee}
OtherMsg == [type |-> "cosmos-sdk/MsgOther", from_address |-> "seele1std",
             to_address |-> "", amount |-> <<>>]
MsgLists == {<<>>, <<OtherMsg>>}
BroadcastDatas ==
  {[present |-> TRUE, code |-> Undef, raw_log |-> "", result |-> "txhash"]}
BroadcastResults == {[ok |-> FALSE, data |-> NoData]} \cup
                    {[ok |-> TRUE, data |-> d] : d \in BroadcastDatas}

\* msg.cosmos.newMsgSend and msg.cosmos.newStdTx: plain data constructors
newMsgSend(from, to, amount) ==
  [type |-> "cosmos-sdk/MsgSend", from_address |-> from, to_address |-> to,
   amount |-> amount]

newStdTx(msgs, fee) == [msg |-> msgs, fee |-> fee]

\* tx.loadMetaData(address, base): the account query it issues
LoadMetaDataReq(address) == GetReq("/auth/accounts/" \o address)

\* tx.broadcastTx(signedTx, base, mode): the broadcast it issues
BroadcastReq(mode) ==
  [method |-> "POST", path |-> api.txs, base |-> baseURI, mode |-> mode]

\* tx.signTx(rawTx, signInfo, wallet): the external signer needs the wallet's key
SignerRejects(w) == w.t = "undefined"
SignerFailure == "Error: signing failed"
WalletTypeError == "TypeError: Cannot read property 'address' of undefined"

\* a parameter's default value applies when the argument is undefined
DefaultParam(v, d) == IF v.t = "undefined" THEN d ELSE v

UsesManualValues(sequence) == Truthy(sequence) /\ NotNullish(accNum)

ManualSignInfo(sequence) ==
  [chain_id |-> chainID,
   account_number |-> Str(ToStr(accNum)),
   sequence |-> Str(ToStr(sequence))]

MergedSignInfo(sequence, meta) ==
  [chain_id |-> chainID,
   account_number |-> IF NotNullish(accNum) THEN Str(ToStr(accNum))
                      ELSE Str(ToStr(meta.account_number)),
   sequence |-> IF Truthy(sequence) THEN Str(ToStr(sequence))
                ELSE Str(ToStr(meta.sequence))]

\* the rest of the call once prepareSignInfo has produced si: prepareSignInfo
\* returns it; sendTx signs the raw transaction and broadcasts the result
Complete(fr, si, bres) ==
  /\ call' = NoFrame
  /\ frame' = fr
  /\ signInfo' = si
  /\ logs' = 0 /\ res' = NoRes
  /\ IF fr.op = "prepareSignInfo"
       THEN /\ Returns(fr.op, fr.sequence, [t |-> "signInfo", data |-> NoData])
            /\ signed' = NoSigned
            /\ req' = NoReq
       ELSE /\ signed' = [tx |-> newStdTx(fr.msgs, fr.fee), signInfo |-> si,
                          wallet |-> wallet]
            /\ IF SignerRejects(wallet)
                 THEN /\ ev' = Ev(fr.op, fr.sequence, "throw", SignerFailure)
                      /\ ret' = NoRet
                      /\ req' = NoReq
                 ELSE /\ req' = BroadcastReq(broadcastMode)
                      /\ IF bres.ok
                           THEN Returns(fr.op, fr.sequence,
                                        [t |-> "response", data |-> bres.data])
                           ELSE /\ ev' = Ev(fr.op, fr.sequence, "throw",
                                           QueryFailure)
                                /\ ret' = NoRet

\* prepareSignInfo up to its await, for the call fr
Prepare(fr, bres) ==
  IF UsesManualValues(fr.sequence)
    THEN Complete(fr, ManualSignInfo(fr.sequence), bres)
    ELSE IF wallet.t = "undefined"
    THEN /\ ev' = Ev(fr.op, fr.sequence, "throw", WalletTypeError)
         /\ call' = NoFrame
         /\ frame' = fr
         /\ ret' = NoRet
         /\ req' = NoReq /\ signInfo' = NoSignInfo /\ signed' = NoSigned
         /\ logs' = 0 /\ res' = NoRes
    ELSE /\ ev' = Ev(fr.op, fr.sequence, "await", "")
         /\ call' = [fr EXCEPT !.fetches = @ + 1]
         /\ frame' = call'
         /\ req' = LoadMetaDataReq(wallet.address)
         /\ ret' = NoRet
         /\ signInfo' = NoSignInfo /\ signed' = NoSigned /\ logs' = 0 /\ res' = NoRes

PrepareSignInfo(sequence) ==
  /\ constructed
  /\ call = NoFrame
  /\ Prepare([NoFrame EXCEPT !.op = "prepareSignInfo", !.sequence = sequence],
             [ok |-> FALSE, data |-> NoData])
  /\ UNCHANGED <<cfg, inits, hist>>

SendTx(msgs, fee, sequence, bres) ==
  /\ constructed
  /\ call = NoFrame
  /\ Prepare([NoFrame EXCEPT !.op = "sendTx", !.msgs = msgs, !.fee = fee,
                             !.sequence = sequence, !.sendTx = 1],
             bres)
  /\ UNCHANGED <<cfg, inits, hist>>

\* a variant with the sender and the recipient exchanged
TransferMsgs_Swapped(recipient, coins) ==
  <<newMsgSend(recipient, wallet.address, coins)>>

TransferMsgs(recipient, coins) == <<newMsgSend(wallet.address, recipient, coins)>>

Transfer(recipient, coins, feeArg, seqArg, bres) ==
  /\ constructed
  /\ call = NoFrame
  /\ LET fr == [NoFrame EXCEPT !.op = "transfer", !.recipient = recipient,
                               !.coins = coins, !.feeArg = feeArg,
                               !.sequence = DefaultParam(seqArg, Null)]
     IN IF wallet.t = "undefined"
          THEN /\ ev' = Ev("transfer", fr.sequence, "throw", WalletTypeError)
               /\ call' = NoFrame
               /\ frame' = fr
               /\ ret' = NoRet
               /\ req' = NoReq /\ signInfo' = NoSignInfo /\ signed' = NoSigned
               /\ logs' = 0 /\ res' = NoRes
          ELSE Prepare([fr EXCEPT !.msgs = TransferMsgs(recipient, coins),
                                  !.fee = DefaultParam(feeArg, DEFAULT_FEE),
                                  !.sendTx = 1],
                       bres)
  /\ UNCHANGED <<cfg, inits, hist>>

\* the continuation of the suspended call: tx.loadMetaData resolved with meta
MetaLoaded(meta, bres) ==
  /\ call # NoFrame
  /\ Complete([call EXCEPT !.meta = meta],
              MergedSignInfo(call.sequence, meta), bres)
  /\ UNCHANGED <<cfg, inits, hist>>

\* the continuation of the suspended call: tx.loadMetaData was rejected
MetaFailed ==
  /\ call # NoFrame
  /\ ev' = Ev(call.op, call.sequence, "throw", QueryFailure)
  /\ call' = NoFrame
  /\ frame' = call
  /\ ret' = NoRet
  /\ req' = NoReq /\ signInfo' = NoSignInfo /\ signed' = NoSigned
  /\ logs' = 0 /\ res' = NoRes
  /\ UNCHANGED <<cfg, inits, hist>>

NextSign ==
  \/ Setters
  \/ \E sequence \in SeqArgs : PrepareSignInfo(sequence)
  \/ \E msgs \in MsgLists, fee \in FeeArgs \ {NoFee}, sequence \in SeqArgs,
        bres \in BroadcastResults :
       SendTx(msgs, fee, sequence, bres)
  \/ \E recipient \in Recipients, coins \in CoinArgs, feeArg \in FeeArgs,
        seqArg \in SeqArgs, bres \in BroadcastResults :
       Transfer(recipient, coins, feeArg, seqArg, bres)
  \/ \E meta \in Metas, bres \in BroadcastResults :
       MetaLoaded(meta, bres)
  \/ MetaFailed

SpecSign == Init /\ [][NextSign]_vars

(***************************************************************************)
(* Chain queries.  A query issues its request and suspends; nothing of the *)
(* client is read or written after the await, so the request and its       *)
(* outcome are one step.                                                   *)
(***************************************************************************)
Heights == {Num(1), Num(12), Num(305), Str("latest")}
Addresses == {Str("seele1std"), Str("seele1bob")}
Denoms == {Str("snp"), Str("usdx")}
TxHashes == {Str("A1B2"), Str("FFEE"), Str("0C0C")}
QueryDatas ==
  {NoData,
   [present |-> TRUE, code |-> Undef, raw_log |-> "", result |-> "r1"],
   [present |-> TRUE, code |-> Num(0), raw_log |-> "", result |-> "r2"],
   [present |-> TRUE, code |-> Num(5), raw_log |-> "out of gas", result |-> "r3"],
   [present |-> TRUE, code |-> Num(11), raw_log |-> "unauthorized", result |-> ""]}
QueryResults == {[ok |-> FALSE, data |-> NoData, cause |-> QueryFailure]} \cup
                {[ok |-> TRUE, data |-> d, cause |-> ""] : d \in QueryDatas}

GetBlockPath(height) == api.getBlock \o "/" \o ToStr(height)
GetValidatorSetPath(height) == api.getValidatorSet \o "/" \o ToStr(height)
CheckTxHashPath(txHash) == api.txs \o "/" \o ToStr(txHash)
GetAccountPath(address) == api.getAccount \o "/" \o ToStr(address)
GetBalancesPath(address) == api.getBalances \o "/" \o ToStr(address)
GetSupplyOfPath(denom) == api.getSupply \o "/" \o ToStr(denom)

\* if (res && res.data) return res.data
DataOf(r) == IF r.data.present THEN [t |-> "data", data |-> r.data]
             ELSE [t |-> "undefined", data |-> NoData]

\* if (res && res.data) return res.data.result
ResultOf(r) == IF r.data.present THEN [t |-> "result", data |-> r.data]
               ELSE [t |-> "undefined", data |-> NoData]

\* one query: the request for path, the outcome r, the value handed back
Query(op, arg, path, r, value) ==
  /\ req' = GetReq(path)
  /\ res' = r
  /\ IF r.ok
       THEN Returns(op, arg, value)
       ELSE /\ ev' = Ev(op, arg, "throw", r.cause)
            /\ ret' = NoRet
  /\ logs' = 0
  /\ signInfo' = NoSignInfo /\ signed' = NoSigned /\ frame' = NoFrame
  /\ UNCHANGED <<cfg, inits, call, hist>>

GetLatestBlock(r) ==
  /\ constructed
  /\ Query("getLatestBlock", Undef, api.getLatestBlock, r, DataOf(r))

GetBlock(height, r) ==
  /\ constructed
  /\ Query("getBlock", height, GetBlockPath(height), r, DataOf(r))

GetLatestValidatorSet(r) ==
  /\ constructed
  /\ Query("getLatestValidatorSet", Undef, api.getLatestValidatorSet, r,
           DataOf(r))

GetValidatorSet(height, r) ==
  /\ constructed
  /\ Query("getValidatorSet", height, GetValidatorSetPath(height), r,
           DataOf(r))

GetAccount(address, r) ==
  /\ constructed
  /\ Query("getAccount", address, GetAccountPath(address), r, ResultOf(r))

GetBalances(address, r) ==
  /\ constructed
  /\ Query("getBalances", address, GetBalancesPath(address), r, ResultOf(r))

GetSupply(r) ==
  /\ constructed
  /\ Query("getSupply", Undef, api.getSupply, r, ResultOf(r))

GetSupplyOf(denom, r) ==
  /\ constructed
  /\ Query("getSupplyOf", denom, GetSupplyOfPath(denom), r, ResultOf(r))

\* _.get(res, 'data.code') is truthy: the chain did not accept the transaction
\* a variant that takes every code that is present for a rejection, 0 included
TxRejected_AnyCode(r) == NotNullish(r.data.code)

TxRejected(r) == Truthy(r.data.code)

CheckTxHash(txHash, r) ==
  /\ constructed
  /\ req' = GetReq(CheckTxHashPath(txHash))
  /\ res' = r
  /\ IF ~r.ok
       THEN /\ ev' = Ev("checkTxHash", txHash, "throw",
                     "tx not found: " \o r.cause)
            /\ ret' = NoRet
            /\ logs' = 0
       ELSE /\ logs' = IF TxRejected(r) THEN 1 ELSE 0
            /\ Returns("checkTxHash", txHash, [t |-> "data", data |-> r.data])
  /\ signInfo' = NoSignInfo /\ signed' = NoSigned /\ frame' = NoFrame
  /\ UNCHANGED <<cfg, inits, call, hist>>

NextQuery ==
  \/ \E server \in Servers : Constructor(server)
  \/ \E r \in QueryResults : GetLatestBlock(r)
  \/ \E height \in Heights, r \in QueryResults : GetBlock(height, r)
  \/ \E r \in QueryResults : GetLatestValidatorSet(r)
  \/ \E height \in Heights, r \in QueryResults : GetValidatorSet(height, r)
  \/ \E address \in Addresses, r \in QueryResults : GetAccount(address, r)
  \/ \E address \in Addresses, r \in QueryResults : GetBalances(address, r)
  \/ \E r \in QueryResults : GetSupply(r)
  \/ \E denom \in Denoms, r \in QueryResults : GetSupplyOf(denom, r)
  \/ \E txHash \in TxHashes, r \in QueryResults : CheckTxHash(txHash, r)

SpecQuery == Init /\ [][NextQuery]_vars

(***************************************************************************)
(* Properties                                                              *)
(***************************************************************************)
SignOps == {"prepareSignInfo", "sendTx", "transfer"}
ConfigOps == {"constructor", "setChainID", "setAccountNumber",
              "setBroadcastMode", "setWallet"}
ConfigErrors == {"Seele server should not be null",
                 "chainID cannot be undefined",
                 "account number cannot be undefined",
                 "broadcast mode cannot be undefined",
                 "mnemonic cannot be undefined"}
Modes == {Str("async"), Str("sync"), Str("block")}

\* an empty or undefined argument
Empty(v) == v.t = "undefined" \/ v.t = "null" \/ (v.t = "string" /\ v.s = "")

\* a sequence argument that is a non-negative integer, as number or as string
Supplied(v) == (v.t = "number" /\ v.n >= 0) \/ (v.t = "string" /\ v.s # "")

\* the step just taken is the one in which a signing-path call was made
InvocationStep == frame.op # "none" /\ (ev.status = "await" \/ frame.fetches = 0)

\* C1: a signing-path call (prepareSignInfo, sendTx, transfer) that finishes
\* while chainID is unset fails: it returns no SignInfo, hands nothing to the
\* signer and broadcasts nothing.
C1_NoSigningWithoutChainID ==
  (ev.op \in SignOps /\ ev.status # "await" /\ ~Truthy(chainID)) =>
    /\ ev.status = "throw"
    /\ signInfo = NoSignInfo
    /\ signed = NoSigned
    /\ req.method # "POST"

\* C2: in every SignInfo produced, account_number is the setAccountNumber
\* override when one is set and the fetched account number otherwise, and
\* sequence is the caller's sequence whenever one is supplied (any non-negative
\* integer, 0 included, as number or string) and the fetched one otherwise.
C2_ManualValuesWin ==
  signInfo # NoSignInfo =>
    /\ signInfo.account_number =
         (IF accNum # Undef THEN accNum
          ELSE Str(ToStr(frame.meta.account_number)))
    /\ signInfo.sequence =
         (IF Supplied(frame.sequence) THEN Str(ToStr(frame.sequence))
          ELSE Str(ToStr(frame.meta.sequence)))

\* C8: a signing-path call made with a sequence supplied and an account number
\* override set issues no account-metadata fetch and produces exactly
\* {chainID, override, sequence}; no call issues more than one fetch.
C8_NoFetchWithBothManual ==
  /\ frame.fetches <= 1
  /\ (InvocationStep /\ Supplied(frame.sequence) /\ accNum # Undef) =>
       /\ frame.fetches = 0
       /\ req.method # "GET"
       /\ signInfo # NoSignInfo =>
            signInfo = [chain_id |-> chainID, account_number |-> accNum,
                        sequence |-> Str(ToStr(frame.sequence))]

\* C3 as stated: as long as setChainID has not been called, all the initChain
\* calls made on the client issue at most one node-info query in total.
C3_AtMostOneQuery == ~hist.manual => hist.queries <= 1

\* C3, amended: a call of initChain made while a chain ID is set issues no
\* query, returns at once and changes neither chainID nor the number of
\* suspended calls.
C3_CachedCallIsNoOp ==
  [][(ev'.op = "initChain" /\ Truthy(chainID)) =>
       /\ ev'.status = "ok"
       /\ req' = NoReq
       /\ hist'.queries = hist.queries
       /\ chainID' = chainID
       /\ inits' = inits]_vars

\* a second initChain call has returned from the cache: one query in all
C3_SecondCallCached ==
  /\ ev.op = "initChain" /\ ev.status = "ok"
  /\ hist.calls = 2 /\ hist.queries = 1 /\ ~hist.manual
  /\ chainID = Str("seele-testnet")
  /\ req = NoReq

\* C4: chainID is assigned from a node-info response at most once, and a value
\* set by setChainID is never replaced by a fetched one.
C4_AutoAssignOnceNeverOverManual ==
  /\ hist.autoAssigns <= 1
  /\ hist.manual => hist.src = "manual"

\* C5: the constructor and the four setters, given an empty or undefined
\* argument, throw a configuration error, issue no request, hand nothing to
\* the signer and leave every field of the client as it was.
C5_EmptyArgumentRejected ==
  [][(ev'.op \in ConfigOps /\ Empty(ev'.arg)) =>
       /\ ev'.status = "throw"
       /\ ev'.err \in ConfigErrors
       /\ req' = NoReq
       /\ signed' = NoSigned
       /\ UNCHANGED <<constructed, baseURI, chainID, accNum, broadcastMode,
                      wallet, hard>>]_vars

\* setChainID("") has just failed on a client whose chain ID stayed set
C5_RejectedOnConfiguredClient ==
  /\ ev.op = "setChainID" /\ ev.arg = Str("") /\ ev.status = "throw"
  /\ chainID = Str("seele-1")
  /\ wallet # NoWallet

\* C6: checkTxHash fails with "tx not found: <cause>" and returns nothing when
\* the query fails; returns the response data without logging when the code is
\* 0 or absent; logs once, does not throw and returns the same response data
\* when the code is non-zero.
C6_CheckTxHashOutcomes ==
  ev.op = "checkTxHash" =>
    /\ ~res.ok =>
         /\ ev.status = "throw"
         /\ ev.err = "tx not found: " \o res.cause
         /\ ret = NoRet
         /\ logs = 0
    /\ (res.ok /\ res.data.code \in {Undef, Num(0)}) =>
         /\ ev.status = "ok"
         /\ ret = [t |-> "data", data |-> res.data]
         /\ logs = 0
    /\ (res.ok /\ res.data.code.t = "number" /\ res.data.code.n # 0) =>
         /\ ev.status = "ok"
         /\ ret = [t |-> "data", data |-> res.data]
         /\ logs = 1

\* checkTxHash has just returned the data of a rejected transaction
C6_RejectedTxReturned ==
  /\ ev.op = "checkTxHash" /\ ev.status = "ok"
  /\ res.ok /\ res.data.code = Num(5)
  /\ logs = 1
  /\ ret.data.raw_log = "out of gas"

\* C7: broadcastMode of a constructed client is always async, sync or block;
\* the constructor sets sync; setBroadcastMode(m) stores m for these three
\* values and otherwise throws and leaves it unchanged; the broadcast is
\* issued with the stored mode.
C7_BroadcastModeValid ==
  [][/\ constructed' => broadcastMode' \in Modes
     /\ (ev'.op = "constructor" /\ ev'.status = "ok") =>
          broadcastMode' = Str("sync")
     /\ ev'.op = "setBroadcastMode" =>
          IF ev'.arg \in Modes
            THEN ev'.status = "ok" /\ broadcastMode' = ev'.arg
            ELSE ev'.status = "throw" /\ broadcastMode' = broadcastMode
     /\ req'.method = "POST" => req'.mode = broadcastMode]_vars

\* a transaction has just been broadcast in block mode
C7_BroadcastInBlockMode ==
  /\ req.method = "POST" /\ req.mode = Str("block")
  /\ broadcastMode = Str("block")
  /\ ev.op \in {"sendTx", "transfer"}

\* C9: every parameterised query requests its fixed endpoint path followed by
\* one separator and the parameter.
C9_QueryPaths ==
  /\ ev.op = "getBlock" => req.path = "/blocks/" \o ToStr(ev.arg)
  /\ ev.op = "getValidatorSet" => req.path = "/validatorsets/" \o ToStr(ev.arg)
  /\ ev.op = "getAccount" => req.path = "/auth/accounts/" \o ToStr(ev.arg)
  /\ ev.op = "getBalances" => req.path = "/bank/balances/" \o ToStr(ev.arg)
  /\ ev.op = "getSupplyOf" => req.path = "/supply/total/" \o ToStr(ev.arg)
  /\ ev.op = "checkTxHash" => req.path = "/txs/" \o ToStr(ev.arg)

\* C10: transfer without a wallet throws before anything is built; with a
\* wallet it invokes sendTx once with a list of exactly one coin-send message
\* (from the wallet's address at the time of the call, to the recipient, for
\* the coins), with the default fee {amount: [], gas: "300000"} when no fee is
\* given and the given fee otherwise, and with the sequence; the signer gets
\* that message list and fee, and the broadcast response is what it returns.
C10_TransferSendsOneMsgSend ==
  frame.op = "transfer" =>
    IF frame.sendTx = 0
      THEN /\ wallet = NoWallet
           /\ ev.status = "throw"
           /\ signed = NoSigned /\ req = NoReq
      ELSE /\ frame.sendTx = 1
           /\ Len(frame.msgs) = 1
           /\ frame.msgs[1].type = "cosmos-sdk/MsgSend"
           /\ frame.msgs[1].to_address = frame.recipient
           /\ frame.msgs[1].amount = frame.coins
           /\ frame.msgs[1].from_address \in {"seele1std", "seele1legacy"}
           /\ InvocationStep => frame.msgs[1].from_address = wallet.address
           /\ frame.fee = (IF frame.feeArg.t = "undefined"
                           THEN [t |-> "object", amount |-> <<>>, gas |-> "300000"]
                           ELSE frame.feeArg)
           /\ frame.sequence = ev.arg
           /\ signed # NoSigned =>
                /\ signed.tx = [msg |-> frame.msgs, fee |-> frame.fee]
                /\ signed.signInfo = signInfo
           /\ ev.status = "ok" =>
                /\ ret.t = "response"
                /\ req.method = "POST"
                /\ signed # NoSigned

\* transfer with the default fee has just been broadcast and has returned
C10_TransferDone ==
  /\ ev.op = "transfer" /\ ev.status = "ok"
  /\ frame.feeArg = NoFee /\ frame.fee.gas = "300000"
  /\ frame.recipient = "seele1carol"
  /\ signed.tx.msg[1].from_address = "seele1legacy"
  /\ ret.t = "response"

====
